---- MODULE Spec2Model ----
(***************************************************************************)
(* A model of supercrawler: the database backed URL queue                  *)
(* (lib/DbUrlList.js) and the crawl engine (Crawler).                      *)
(*                                                                         *)
(* The specifications share the variables:                                 *)
(*   SpecDb    concurrent callers of one DbUrlList, statement by statement *)
(*   SpecBulk  insertIfNotExistsBulk against insertIfNotExists             *)
(*   Spec      the Crawler's tick chains (start, stop, _crawlTick);        *)
(*             SpecFair adds that work in flight completes                 *)
(*   SpecProc  the per-URL pipeline _processUrl                            *)
(***************************************************************************)
EXTENDS Integers, Sequences, FiniteSets, Bags, TLC

VARIABLES
    tableExists,        \* the url table has been created in the database
    urlTableSynced,     \* DbUrlList._urlTableSynced
    countChangedRows,   \* the store's UPDATE count: changed rows (TRUE) or matched rows (FALSE)
    defaultsCrawled,    \* the store fills a crawled column the row omits with false (TRUE),
                        \* or refuses the row: the column is NOT NULL without a default (FALSE)
    rows,               \* the url table, in insertion (id) order
    wk,                 \* per caller: the DbUrlList operation in progress
    returned,           \* history: per URL, how many getNextUrl calls resolved with it
    last,               \* history: the operation that settled last, and how
    ops,                \* history: how many operations the callers have started
    eachRows,           \* SpecBulk: the table kept by per-record insertIfNotExists
    started,            \* Crawler._started
    lastRequestDate,    \* Crawler._lastRequestDate: <<>> while unset, else <<time>>
    outstandingRequests,\* Crawler._outstandingRequests
    now,                \* the clock (new Date())
    chains,             \* the live tick chains, a bag: pending timers and work in flight
    requestStarts,      \* history: the times at which _crawlTick wrote _lastRequestDate
    upserts,            \* history: per outcome the tick loop upserted, _started at that moment
    emitted,            \* the events the Crawler emitted in the latest step of the tick loop
    robotsEnabled,      \* Crawler._robotsEnabled
    robotsIgnoreServerError, \* Crawler._robotsIgnoreServerError
    requestOptions,     \* Crawler._request, as far as it decides what axios.get hands over
    robotsCache,        \* Crawler._robotsCache for the origin: <<>> on a miss, else <<body>>
    handlers,           \* Crawler._handlers, in registration order
    proc                \* SpecProc: the _processUrl call in progress, and its history

dbConf == <<tableExists, urlTableSynced, countChangedRows, defaultsCrawled>>

\* what the callers of SpecDb and SpecBulk use beyond the table
callerVars == <<wk, last, ops, eachRows>>

crawlerVars == <<started, lastRequestDate, outstandingRequests, now, chains,
                 requestStarts, upserts, emitted>>

procVars == <<robotsEnabled, robotsIgnoreServerError, requestOptions, robotsCache, handlers,
              proc>>

vars == <<tableExists, urlTableSynced, countChangedRows, defaultsCrawled, rows, returned,
          wk, last, ops, eachRows, started, lastRequestDate, outstandingRequests, now, chains,
          requestStarts, upserts, emitted, robotsEnabled, robotsIgnoreServerError, requestOptions,
          robotsCache, handlers, proc>>

(***************************************************************************)
(* Bounds                                                                  *)
(***************************************************************************)
NumUrls == 2
NumWorkers == 2
MaxOps == 3

\* a bulk insert carries at most one record per URL and one repeated record
MaxBulk == NumUrls

URLS == 1..NumUrls
Workers == 1..NumWorkers

(***************************************************************************)
(* Url objects (lib/Url): url, statusCode, errorCode.  null is "null".     *)
(***************************************************************************)
Null == "null"

NewUrl(u) == [url |-> u, statusCode |-> Null, errorCode |-> Null]

OkUrl(u) == [url |-> u, statusCode |-> "200", errorCode |-> Null]

FailedUrl(u) == [url |-> u, statusCode |-> "500", errorCode |-> "HTTP_ERROR"]

OtherErrorUrl(u) == [url |-> u, statusCode |-> Null, errorCode |-> "OTHER_ERROR"]

\* the records callers hand to insertIfNotExists / insertIfNotExistsBulk
InsertObjs == {NewUrl(u) : u \in URLS} \cup {FailedUrl(u) : u \in URLS}

\* the records callers hand to upsert
UpsertObjs == {OkUrl(u) : u \in URLS} \cup {FailedUrl(u) : u \in URLS}

\* the lists handed to insertIfNotExistsBulk: discovered links, new Url({url: link})
BulkLists == UNION {[1..n -> {NewUrl(u) : u \in URLS}] : n \in 0..MaxBulk}

(***************************************************************************)
(* The url table                                                           *)
(***************************************************************************)
\* sha1 hex digest of the URL: distinct URLs have distinct digests
UrlHash(u) == <<"sha1", u>>

MakeUrlRow(url) ==
    [urlHash    |-> UrlHash(url.url),
     url        |-> url.url,
     statusCode |-> url.statusCode,
     errorCode  |-> url.errorCode,
     numErrors  |-> IF url.errorCode = Null THEN 0 ELSE 1]

\* the stored row of a value row that names no id and no crawled flag: the next
\* id of the sequence, and crawled = false
StoredRow(tbl, row) ==
    [id         |-> Len(tbl) + 1,
     urlHash    |-> row.urlHash,
     url        |-> row.url,
     statusCode |-> row.statusCode,
     errorCode  |-> row.errorCode,
     numErrors  |-> row.numErrors,
     crawled    |-> FALSE]

HasHash(tbl, h) == \E i \in 1..Len(tbl) : tbl[i].urlHash = h

\* findOne({where: {urlHash}}): <<>> for null, <<row>> otherwise
FindOneByHash(tbl, h) ==
    IF HasHash(tbl, h)
    THEN <<tbl[CHOOSE i \in 1..Len(tbl) : tbl[i].urlHash = h]>>
    ELSE <<>>

\* faulty variant: the uncrawled row with the largest id
FindLastUncrawled(tbl) ==
    LET S == {i \in 1..Len(tbl) : ~tbl[i].crawled}
    IN IF S = {}
       THEN <<>>
       ELSE <<tbl[CHOOSE i \in S : \A j \in S : tbl[i].id >= tbl[j].id]>>

\* findOne({where: {crawled: false}, order: id ASC})
FindNextUncrawled(tbl) ==
    LET S == {i \in 1..Len(tbl) : ~tbl[i].crawled}
    IN IF S = {}
       THEN <<>>
       ELSE <<tbl[CHOOSE i \in S : \A j \in S : tbl[i].id <= tbl[j].id]>>

\* urlTable.create(row): the unique index on urlHash refuses a duplicate
CreateRow(tbl, row) ==
    IF HasHash(tbl, row.urlHash)
    THEN [tbl |-> tbl, err |-> "UniqueConstraintError"]
    ELSE [tbl |-> Append(tbl, StoredRow(tbl, row)), err |-> Null]

\* faulty variant: duplicates are looked for in the table only, not in the list
BulkKeptStoredOnly(tbl, rws) ==
    {i \in 1..Len(rws) : ~HasHash(tbl, rws[i].urlHash)}

\* urlTable.bulkCreate(rows, {ignoreDuplicates: true}): one statement; a row
\* whose urlHash is stored, or stands earlier in the list, is skipped
BulkKept(tbl, rws) ==
    {i \in 1..Len(rws) :
        /\ ~HasHash(tbl, rws[i].urlHash)
        /\ \A j \in 1..(i - 1) : rws[j].urlHash # rws[i].urlHash}

RECURSIVE BulkAppend(_, _, _, _)
BulkAppend(tbl, rws, kept, i) ==
    IF i > Len(rws)
    THEN tbl
    ELSE BulkAppend(IF i \in kept THEN Append(tbl, StoredRow(tbl, rws[i])) ELSE tbl,
                    rws, kept, i + 1)

BulkCreateRows(tbl, rws) == BulkAppend(tbl, rws, BulkKept(tbl, rws), 1)

\* faulty variant: the upsert writes the row anew, crawled = false
UpsertRowAnew(tbl, row) ==
    IF HasHash(tbl, row.urlHash)
    THEN [i \in 1..Len(tbl) |->
            IF tbl[i].urlHash = row.urlHash
            THEN [StoredRow(tbl, row) EXCEPT !.id = tbl[i].id]
            ELSE tbl[i]]
    ELSE Append(tbl, StoredRow(tbl, row))

\* urlTable.upsert(row), keyed on urlHash: the columns the row names are
\* written, id and crawled of an existing row are kept
UpsertRow(tbl, row) ==
    IF HasHash(tbl, row.urlHash)
    THEN [i \in 1..Len(tbl) |->
            IF tbl[i].urlHash = row.urlHash
            THEN [tbl[i] EXCEPT !.url = row.url,
                                !.statusCode = row.statusCode,
                                !.errorCode = row.errorCode,
                                !.numErrors = row.numErrors]
            ELSE tbl[i]]
    ELSE Append(tbl, StoredRow(tbl, row))

\* faulty variant: the read numErrors is written back without the increment
UpsertValuesNoIncrement(url, record) ==
    LET numErrors == IF record # <<>> THEN record[1].numErrors ELSE 0
    IN [urlHash    |-> UrlHash(url.url),
        url        |-> url.url,
        statusCode |-> url.statusCode,
        errorCode  |-> url.errorCode,
        numErrors  |-> IF url.errorCode = Null THEN 0 ELSE numErrors]

\* the row upsert() writes, given the record its findOne returned
UpsertValues(url, record) ==
    LET numErrors == IF record # <<>> THEN record[1].numErrors ELSE 0
    IN [urlHash    |-> UrlHash(url.url),
        url        |-> url.url,
        statusCode |-> url.statusCode,
        errorCode  |-> url.errorCode,
        numErrors  |-> IF url.errorCode = Null THEN 0 ELSE numErrors + 1]

\* urlTable.update({crawled: true}, {where: {id}})
UpdateWhere(row, id) == row.id = id

UpdateCrawled(tbl, id) ==
    [i \in 1..Len(tbl) |->
        IF UpdateWhere(tbl[i], id) THEN [tbl[i] EXCEPT !.crawled = TRUE] ELSE tbl[i]]

\* res[0] of update(): the rows the statement matched, or, on a store that
\* reports changed rows, those among them whose crawled flag it changed
NumAffected(tbl, id, changedOnly) ==
    Cardinality({i \in 1..Len(tbl) :
        UpdateWhere(tbl[i], id) /\ (changedOnly => ~tbl[i].crawled)})

(***************************************************************************)
(* DbUrlList operations.  An operation runs _getUrlTable and then its      *)
(* statements; each step below is one database statement together with the *)
(* callback that receives its result.  The call itself touches nothing but *)
(* _urlTableSynced, so it is taken together with the first statement,      *)
(* except for the call that starts sync() and waits for it.                *)
(***************************************************************************)
Idle == [pc |-> "idle", op |-> "none", arg |-> <<>>, rec |-> <<>>,
         res |-> "none", val |-> "none"]

\* the statement an operation issues once _getUrlTable resolved
FirstStmt(op, arg) ==
    CASE op = "insertIfNotExists"     -> "create"
      [] op = "insertIfNotExistsBulk" -> "bulkCreate"
      [] op = "getNextUrl"            -> "select"
      [] op = "upsert"                -> IF arg[1].errorCode = Null THEN "upsertWrite"
                                                                    ELSE "findOne"

Started(op, arg) ==
    [pc |-> FirstStmt(op, arg), op |-> op, arg |-> arg, rec |-> <<>>,
     res |-> "none", val |-> "none"]

\* the settled operation: how it settled (res) and with what (val, rec); of
\* a bulk insert's list it is kept whether it repeated a URL (dup) and whether
\* it held a stored URL (stored)
Settled(cur, res, val, rec) ==
    [op |-> cur.op,
     arg |-> IF cur.op = "insertIfNotExistsBulk" THEN <<>> ELSE cur.arg,
     rec |-> rec, res |-> res, val |-> val, dup |-> FALSE, stored |-> FALSE]

NoneSettled ==
    [op |-> "none", arg |-> <<>>, rec |-> <<>>, res |-> "none", val |-> "none",
     dup |-> FALSE, stored |-> FALSE]

\* caller w's operation settles
Settle(w, cur, res, val, rec) ==
    /\ wk' = [wk EXCEPT ![w] = Idle]
    /\ last' = Settled(cur, res, val, rec)

HasDuplicate(urls) ==
    \E i, j \in 1..Len(urls) : i < j /\ urls[i].url = urls[j].url

\* create(...).catch(Sequelize.UniqueConstraintError, fn): create returns a
\* native promise, whose catch takes one argument, so a rejection is handed
\* to the error class itself, which cannot be called without new
CatchUniqueConstraint(err) ==
    IF err = Null
    THEN [res |-> "resolved", val |-> "instance"]
    ELSE [res |-> "rejected", val |-> "TypeError"]

\* insertIfNotExists: create(_makeUrlRow(url)) and its catch
ExecCreate(w, cur) ==
    LET r == CreateRow(rows, MakeUrlRow(cur.arg[1]))
        settled == CatchUniqueConstraint(r.err)
    IN /\ rows' = r.tbl
       /\ Settle(w, cur, settled.res, settled.val, <<>>)
       /\ UNCHANGED returned

\* insertIfNotExistsBulk: bulkCreate(urls.map(_makeUrlRow), {ignoreDuplicates})
ExecBulkCreate(w, cur) ==
    /\ rows' = BulkCreateRows(rows, [i \in 1..Len(cur.arg) |-> MakeUrlRow(cur.arg[i])])
    /\ wk' = [wk EXCEPT ![w] = Idle]
    /\ last' = [Settled(cur, "resolved", "instances", <<>>) EXCEPT
                  !.dup = HasDuplicate(cur.arg),
                  !.stored = \E i \in 1..Len(cur.arg) :
                                HasHash(rows, UrlHash(cur.arg[i].url))]
    /\ UNCHANGED returned

\* the Url object getNextUrl builds from the selected record
UrlOfRecord(record) ==
    [url |-> record.url, statusCode |-> record.statusCode, errorCode |-> record.errorCode]

\* getNextUrl: the findOne; null rejects with RangeError
ExecSelect(w, cur) ==
    /\ LET found == FindNextUncrawled(rows)
       IN IF found = <<>>
          THEN Settle(w, cur, "rejected", "RangeError", <<>>)
          ELSE /\ wk' = [wk EXCEPT ![w] = [cur EXCEPT !.pc = "update", !.rec = found]]
               /\ UNCHANGED last
    /\ UNCHANGED <<rows, returned>>

\* getNextUrl: the update and its then(): zero affected rows calls getNextUrl
\* again, otherwise the selected record is returned
ExecUpdate(w, cur) ==
    LET id == cur.rec[1].id
        numAffected == NumAffected(rows, id, countChangedRows)
    IN /\ rows' = UpdateCrawled(rows, id)
       /\ IF numAffected = 0
          THEN /\ wk' = [wk EXCEPT ![w] = [cur EXCEPT !.pc = "select", !.rec = <<>>]]
               /\ UNCHANGED <<returned, last>>
          ELSE /\ Settle(w, cur, "resolved", "url", <<UrlOfRecord(cur.rec[1])>>)
               /\ returned' = [returned EXCEPT ![cur.rec[1].url] = @ + 1]

\* upsert with an errorCode: the findOne that reads the stored numErrors
ExecFindOne(w, cur) ==
    /\ wk' = [wk EXCEPT ![w] =
                [cur EXCEPT !.pc = "upsertWrite",
                            !.rec = FindOneByHash(rows, UrlHash(cur.arg[1].url))]]
    /\ UNCHANGED <<rows, returned, last>>

\* upsert: the write
ExecUpsertWrite(w, cur) ==
    /\ rows' = UpsertRow(rows, UpsertValues(cur.arg[1], cur.rec))
    /\ Settle(w, cur, "resolved", "upserted", <<>>)
    /\ UNCHANGED returned

\* the statements that write a whole row; none of them names crawled
WritesRow == {"create", "bulkCreate", "upsertWrite"}

\* a row without crawled on a store that does not fill it in: create and
\* upsert are rejected (the column does not allow null); bulkCreate, whose
\* rows the store ignores or refuses, resolves or rejects; nothing is stored
ExecRefused(w, cur) ==
    /\ \E res \in IF cur.pc = "bulkCreate" THEN {"resolved", "rejected"} ELSE {"rejected"} :
          Settle(w, cur, res, IF res = "resolved" THEN "instances" ELSE "ValidationError", <<>>)
    /\ UNCHANGED <<rows, returned>>

\* the statement cur.pc names, run for caller w; on a table that was not
\* created the statement fails and the operation rejects
Exec(w, cur) ==
    IF ~tableExists
    THEN /\ Settle(w, cur, "rejected", "NoTableError", <<>>)
         /\ UNCHANGED <<rows, returned>>
    ELSE IF ~defaultsCrawled /\ cur.pc \in WritesRow
    THEN ExecRefused(w, cur)
    ELSE CASE cur.pc = "create"      -> ExecCreate(w, cur)
           [] cur.pc = "bulkCreate"  -> ExecBulkCreate(w, cur)
           [] cur.pc = "select"      -> ExecSelect(w, cur)
           [] cur.pc = "update"      -> ExecUpdate(w, cur)
           [] cur.pc = "findOne"     -> ExecFindOne(w, cur)
           [] cur.pc = "upsertWrite" -> ExecUpsertWrite(w, cur)

\* callers are interchangeable: a new call takes the lowest free slot
Free(w) == wk[w].pc = "idle"

\* _getUrlTable and the first statement: the caller that finds the flag unset
\* starts sync() and waits for it; the flag is set at once in either case
Call(w, op, arg) ==
    /\ Free(w)
    /\ \A v \in 1..(w - 1) : ~Free(v)
    /\ ops < MaxOps
    /\ ops' = ops + 1
    /\ urlTableSynced' = TRUE
    /\ IF urlTableSynced
       THEN Exec(w, Started(op, arg))
       ELSE /\ wk' = [wk EXCEPT ![w] = [Started(op, arg) EXCEPT !.pc = "sync"]]
            /\ UNCHANGED <<rows, returned, last>>

InsertIfNotExists(w) ==
    /\ \E url \in InsertObjs : Call(w, "insertIfNotExists", <<url>>)
    /\ UNCHANGED <<tableExists, countChangedRows, defaultsCrawled, eachRows, crawlerVars,
                   procVars>>

InsertIfNotExistsBulk(w) ==
    /\ \E urls \in BulkLists : Call(w, "insertIfNotExistsBulk", urls)
    /\ UNCHANGED <<tableExists, countChangedRows, defaultsCrawled, eachRows, crawlerVars,
                   procVars>>

GetNextUrl(w) ==
    /\ Call(w, "getNextUrl", <<>>)
    /\ UNCHANGED <<tableExists, countChangedRows, defaultsCrawled, eachRows, crawlerVars,
                   procVars>>

Upsert(w) ==
    /\ \E url \in UpsertObjs : Call(w, "upsert", <<url>>)
    /\ UNCHANGED <<tableExists, countChangedRows, defaultsCrawled, eachRows, crawlerVars,
                   procVars>>

\* sync() of the caller that started it succeeds (CREATE TABLE IF NOT EXISTS)
\* and the caller's first statement runs
DbSyncDone(w) ==
    /\ wk[w].pc = "sync"
    /\ tableExists' = TRUE
    /\ wk' = [wk EXCEPT ![w].pc = FirstStmt(wk[w].op, wk[w].arg)]
    /\ UNCHANGED <<urlTableSynced, countChangedRows, defaultsCrawled, rows, returned, last,
                   ops, eachRows,
                   crawlerVars, procVars>>

\* sync() fails: the operation rejects
DbSyncFail(w) ==
    /\ wk[w].pc = "sync"
    /\ Settle(w, wk[w], "rejected", "SyncError", <<>>)
    /\ UNCHANGED <<dbConf, rows, returned, ops, eachRows, crawlerVars, procVars>>

\* a statement of an operation in progress
DbStatement(w, pc) ==
    /\ wk[w].pc = pc
    /\ Exec(w, wk[w])
    /\ UNCHANGED <<dbConf, ops, eachRows, crawlerVars, procVars>>

\* the first statement of the operation that waited for sync()
DbCreate(w) == /\ DbStatement(w, "create")

DbBulkCreate(w) == /\ DbStatement(w, "bulkCreate")

\* after sync(), or after an update that affected no row
DbSelect(w) == /\ DbStatement(w, "select")

DbUpdate(w) == /\ DbStatement(w, "update")

DbFindOne(w) == /\ DbStatement(w, "findOne")

DbUpsertWrite(w) == /\ DbStatement(w, "upsertWrite")

\* what the server of a URL answers: a status, and for a redirect its
\* Location (<<>> when the header is absent)
Answer(status, location) == [status |-> status, location |-> location]

NoAnswer == Answer(Null, <<>>)

\* no _processUrl call has been made
ProcIdle ==
    [pc |-> "idle", url |-> 0, native |-> FALSE, robots |-> "none", fetched |-> FALSE,
     answer |-> NoAnswer, status |-> Null, contentType |-> <<>>, invoked |-> <<>>,
     links |-> <<>>,
     events |-> <<>>, cause |-> "none", result |-> <<>>]

\* the Crawler after construction: not started, nothing requested
CrawlerNew ==
    /\ started = FALSE
    /\ lastRequestDate = <<>>
    /\ outstandingRequests = 0
    /\ now = 0
    /\ chains = EmptyBag
    /\ requestStarts = <<>>
    /\ upserts = <<>>
    /\ emitted = <<>>
    /\ robotsCache = <<>>
    /\ handlers = <<>>
    /\ proc = ProcIdle

\* a DbUrlList used without a Crawler
CrawlerUnused ==
    /\ CrawlerNew
    /\ robotsEnabled = TRUE
    /\ robotsIgnoreServerError = FALSE
    /\ requestOptions = "default"

(***************************************************************************)
(* SpecDb: callers of one DbUrlList                                        *)
(***************************************************************************)
InitDb ==
    /\ tableExists = FALSE
    /\ urlTableSynced = FALSE
    /\ countChangedRows \in BOOLEAN
    /\ defaultsCrawled \in BOOLEAN
    /\ rows = <<>>
    /\ wk = [w \in Workers |-> Idle]
    /\ returned = [u \in URLS |-> 0]
    /\ last = NoneSettled
    /\ ops = 0
    /\ eachRows = <<>>
    /\ CrawlerUnused

NextDb ==
    \E w \in Workers :
        \/ InsertIfNotExists(w)
        \/ InsertIfNotExistsBulk(w)
        \/ GetNextUrl(w)
        \/ Upsert(w)
        \/ DbSyncDone(w)
        \/ DbSyncFail(w)
        \/ DbCreate(w)
        \/ DbBulkCreate(w)
        \/ DbSelect(w)
        \/ DbUpdate(w)
        \/ DbFindOne(w)
        \/ DbUpsertWrite(w)

SpecDb == InitDb /\ [][NextDb]_vars

(***************************************************************************)
(* SpecBulk: one table fed through insertIfNotExistsBulk, a second table   *)
(* (eachRows) fed the same records through insertIfNotExists one by one;   *)
(* every other operation is applied to both.                               *)
(***************************************************************************)
RowsOf(urls) == [i \in 1..Len(urls) |-> MakeUrlRow(urls[i])]

\* insertIfNotExists on each record of the list, in list order
RECURSIVE InsertEach(_, _, _)
InsertEach(tbl, urls, i) ==
    IF i > Len(urls)
    THEN tbl
    ELSE InsertEach(CreateRow(tbl, MakeUrlRow(urls[i])).tbl, urls, i + 1)

\* getNextUrl run to its end by a single caller
Dequeued(tbl) ==
    LET found == FindNextUncrawled(tbl)
    IN IF found = <<>> THEN tbl ELSE UpdateCrawled(tbl, found[1].id)

\* upsert run to its end by a single caller
Upserted(tbl, url) ==
    LET record == IF url.errorCode = Null THEN <<>>
                  ELSE FindOneByHash(tbl, UrlHash(url.url))
    IN UpsertRow(tbl, UpsertValues(url, record))

BulkStarted(urls) == Started("insertIfNotExistsBulk", urls)

BothBulk ==
    \E urls \in UNION {[1..n -> InsertObjs] : n \in 0..MaxBulk} :
        /\ rows' = BulkCreateRows(rows, RowsOf(urls))
        /\ eachRows' = InsertEach(eachRows, urls, 1)
        /\ last' = [Settled(BulkStarted(urls), "resolved", "instances", <<>>) EXCEPT
                      !.dup = HasDuplicate(urls),
                      !.stored = \E i \in 1..Len(urls) :
                                    HasHash(rows, UrlHash(urls[i].url))]

BothInsert ==
    \E url \in InsertObjs :
        /\ rows' = CreateRow(rows, MakeUrlRow(url)).tbl
        /\ eachRows' = CreateRow(eachRows, MakeUrlRow(url)).tbl
        /\ last' = Settled(Started("insertIfNotExists", <<url>>), "resolved", "instance", <<>>)

BothGetNextUrl ==
    /\ rows' = Dequeued(rows)
    /\ eachRows' = Dequeued(eachRows)
    /\ last' = Settled(Started("getNextUrl", <<>>), "resolved", "url", <<>>)

BothUpsert ==
    \E url \in UpsertObjs :
        /\ rows' = Upserted(rows, url)
        /\ eachRows' = Upserted(eachRows, url)
        /\ last' = Settled(Started("upsert", <<url>>), "resolved", "upserted", <<>>)

InitBulk ==
    /\ tableExists = TRUE
    /\ urlTableSynced = TRUE
    /\ countChangedRows = FALSE
    /\ defaultsCrawled = TRUE
    /\ rows = <<>>
    /\ eachRows = <<>>
    /\ wk = [w \in Workers |-> Idle]
    /\ returned = [u \in URLS |-> 0]
    /\ last = NoneSettled
    /\ ops = 0
    /\ CrawlerUnused

NextBulk ==
    /\ ops < MaxOps
    /\ ops' = ops + 1
    /\ \/ BothBulk
       \/ BothInsert
       \/ BothGetNextUrl
       \/ BothUpsert
    /\ UNCHANGED <<dbConf, wk, returned, crawlerVars, procVars>>

SpecBulk == InitBulk /\ [][NextBulk]_vars

(***************************************************************************)
(* Spec: the Crawler's tick chains.  A chain is one _crawlTick call and    *)
(* what follows from it: a pending setTimeout, or the getNextUrl /         *)
(* _processUrl / upsert promise chain in flight.  Chains are                *)
(* interchangeable, so they are kept as a bag.  A step is one timer or one *)
(* I/O completion together with the synchronous code that runs on it.      *)
(***************************************************************************)
Interval == 2
Limit == 2
MaxTime == 4
MaxStarts == 3

\* start() is taken while at most one earlier chain is alive
MaxChains == Limit + 1

\* SpecHandlers, SpecProc: the number of handlers registered
MaxHandlers == 2

Max(a, b) == IF a >= b THEN a ELSE b

Chain(pc, due, url, result, rec) ==
    [pc |-> pc, due |-> due, url |-> url, result |-> result, rec |-> rec]

Timer(due) == Chain("timer", due, 0, <<>>, <<>>)

Put(bag, c) == bag (+) SetToBag({c})

Take(bag, c) == bag (-) SetToBag({c})

\* Crawler.getInterval()
GetInterval == Interval

\* faulty variant: the next request is allowed at once
NextRequestDateNoInterval(lastDate, t) == t

\* Crawler._getNextRequestDate()
NextRequestDate(lastDate, t) ==
    IF lastDate = <<>> THEN t ELSE lastDate[1] + GetInterval

\* Crawler._scheduleNextTick(): the time at which the timer is due
ScheduleNextTick(lastDate, t) ==
    Timer(t + Max(0, NextRequestDate(lastDate, t) - t))

\* faulty variant: a tick does not look at _started
CrawlTickAlways(isStarted, st, t) ==
    IF NextRequestDate(st.lastDate, t) - t > 0
    THEN [st EXCEPT !.chains = Put(@, ScheduleNextTick(st.lastDate, t))]
    ELSE [lastDate |-> <<t>>,
          chains   |-> Put(st.chains, Chain("select", 0, 0, <<>>, <<>>)),
          starts   |-> Append(st.starts, t)]

\* Crawler._crawlTick() at time t, up to the call of getNextUrl; st holds
\* _lastRequestDate, the live chains and the request starts so far
CrawlTick(isStarted, st, t) ==
    IF ~isStarted
    THEN st
    ELSE IF NextRequestDate(st.lastDate, t) - t > 0
    THEN [st EXCEPT !.chains = Put(@, ScheduleNextTick(st.lastDate, t))]
    ELSE [lastDate |-> <<t>>,
          chains   |-> Put(st.chains, Chain("select", 0, 0, <<>>, <<>>)),
          starts   |-> Append(st.starts, t)]

RECURSIVE CrawlTicks(_, _, _, _)
\* the loop of start(): n calls of _crawlTick
CrawlTicks(n, isStarted, st, t) ==
    IF n = 0 THEN st
    ELSE CrawlTicks(n - 1, isStarted, CrawlTick(isStarted, st, t), t)

TickState(bag) == [lastDate |-> lastRequestDate, chains |-> bag, starts |-> requestStarts]

SetTickState(st) ==
    /\ lastRequestDate' = st.lastDate
    /\ chains' = st.chains
    /\ requestStarts' = st.starts

\* Crawler.start()
Start ==
    /\ ~started
    /\ BagCardinality(chains) + Limit <= MaxChains
    /\ Len(requestStarts) < MaxStarts
    /\ started' = TRUE
    /\ SetTickState(CrawlTicks(Limit, TRUE, TickState(chains), now))
    /\ emitted' = <<>>
    /\ UNCHANGED <<dbConf, rows, returned, callerVars, outstandingRequests, now,
                   upserts, procVars>>

\* Crawler.stop()
Stop ==
    /\ started' = FALSE
    /\ emitted' = <<>>
    /\ UNCHANGED <<dbConf, rows, returned, callerVars, lastRequestDate,
                   outstandingRequests, now, chains, requestStarts, upserts, procVars>>

\* time passes
Clock ==
    /\ now < MaxTime
    /\ now' = now + 1
    /\ emitted' = <<>>
    /\ UNCHANGED <<dbConf, rows, returned, callerVars, started, lastRequestDate,
                   outstandingRequests, chains, requestStarts, upserts, procVars>>

\* a timer set by _scheduleNextTick fires and calls _crawlTick
TimerFire(c) ==
    /\ c.pc = "timer"
    /\ now >= c.due
    /\ Len(requestStarts) < MaxStarts
    /\ SetTickState(CrawlTick(started, TickState(Take(chains, c)), now))
    /\ emitted' = <<>>
    /\ UNCHANGED <<dbConf, rows, returned, callerVars, started, outstandingRequests,
                   now, upserts, procVars>>

\* faulty variant: the chain ends without a next tick
RescheduleNever(c) == chains' = Take(chains, c)

\* the end of a chain's promise chain: finally -> _scheduleNextTick
Reschedule(c) == chains' = Put(Take(chains, c), ScheduleNextTick(lastRequestDate, now))

\* the tick's catch of RangeError: urllistempty, and urllistcomplete when
\* nothing is outstanding
QueueEmpty(outstanding) ==
    IF outstanding = 0
    THEN <<"urllistempty", "urllistcomplete">>
    ELSE <<"urllistempty">>

\* getNextUrl: findOne answers.  No row: RangeError, caught by the tick,
\* which emits and schedules its next tick.  A failure of the statement is
\* no RangeError: it passes the catch, and the finally schedules the next
\* tick
ChainSelect(c) ==
    /\ c.pc = "select"
    /\ LET record == FindNextUncrawled(rows)
       IN IF ~tableExists
          THEN /\ Reschedule(c)
               /\ emitted' = <<>>
          ELSE IF record = <<>>
          THEN /\ Reschedule(c)
               /\ emitted' = QueueEmpty(outstandingRequests)
          ELSE /\ chains' = Put(Take(chains, c),
                                Chain("update", 0, record[1].url, <<>>, record))
               /\ emitted' = <<>>
    /\ UNCHANGED <<dbConf, rows, returned, callerVars, started, lastRequestDate,
                   outstandingRequests, now, requestStarts, upserts, procVars>>

\* getNextUrl: the store executes the update (crawled = true); the answer,
\* the number of affected rows, is on its way to the tick
ChainUpdate(c) ==
    /\ c.pc = "update"
    /\ IF ~tableExists
       THEN /\ Reschedule(c)
            /\ UNCHANGED rows
       ELSE /\ rows' = UpdateCrawled(rows, c.rec[1].id)
            /\ chains' = Put(Take(chains, c),
                             Chain("updated", 0, c.url,
                                   <<NumAffected(rows, c.rec[1].id, countChangedRows)>>,
                                   c.rec))
    /\ emitted' = <<>>
    /\ UNCHANGED <<dbConf, returned, callerVars, started, lastRequestDate,
                   outstandingRequests, now, requestStarts, upserts, procVars>>

\* getNextUrl: the answer of the update arrives.  No row affected:
\* getNextUrl again; else getNextUrl resolves, and the tick's callback counts
\* the URL outstanding and calls _processUrl
ChainUpdated(c) ==
    /\ c.pc = "updated"
    /\ IF c.result[1] = 0
       THEN /\ chains' = Put(Take(chains, c), Chain("select", 0, 0, <<>>, <<>>))
            /\ UNCHANGED <<returned, outstandingRequests>>
       ELSE /\ chains' = Put(Take(chains, c), Chain("process", 0, c.url, <<>>, <<>>))
            /\ returned' = [returned EXCEPT ![c.url] = @ + 1]
            /\ outstandingRequests' = outstandingRequests + 1
    /\ emitted' = <<>>
    /\ UNCHANGED <<dbConf, rows, callerVars, started, lastRequestDate, now,
                   requestStarts, upserts, procVars>>

\* _processUrl: the download (and the handlers) end.  On success the links
\* go to insertIfNotExistsBulk; on failure the outcome goes to upsert, which
\* reads the stored row first
ChainProcess(c) ==
    /\ c.pc = "process"
    /\ \E ok \in BOOLEAN :
          chains' = Put(Take(chains, c),
                        IF ok THEN Chain("links", 0, c.url, <<OkUrl(c.url)>>, <<>>)
                        ELSE Chain("findOne", 0, c.url, <<FailedUrl(c.url)>>, <<>>))
    /\ emitted' = <<>>
    /\ UNCHANGED <<dbConf, rows, returned, callerVars, started, lastRequestDate,
                   outstandingRequests, now, requestStarts, upserts, procVars>>

\* _processUrl: insertIfNotExistsBulk has failed; the last catch makes the
\* outcome, which goes to upsert
LinksFailed(c) == Chain("findOne", 0, c.url, <<OtherErrorUrl(c.url)>>, <<>>)

\* _processUrl: bulkCreate of the discovered links answers; the outcome,
\* with errorCode null, goes to upsert, which writes at once
ChainLinks(c) ==
    /\ c.pc = "links"
    /\ IF ~tableExists
       THEN /\ chains' = Put(Take(chains, c), LinksFailed(c))
            /\ UNCHANGED rows
       ELSE /\ \E links \in BulkLists : rows' = BulkCreateRows(rows, RowsOf(links))
            /\ chains' = Put(Take(chains, c), Chain("upsertWrite", 0, c.url, c.result, <<>>))
    /\ emitted' = <<>>
    /\ UNCHANGED <<dbConf, returned, callerVars, started, lastRequestDate,
                   outstandingRequests, now, requestStarts, upserts, procVars>>

\* upsert has failed: nothing catches it; finally: _outstandingRequests--,
\* and the outer finally schedules the next tick
UpsertFailed(c) ==
    /\ outstandingRequests' = outstandingRequests - 1
    /\ Reschedule(c)
    /\ UNCHANGED <<rows, upserts>>

\* upsert: findOne answers
ChainFindOne(c) ==
    /\ c.pc = "findOne"
    /\ IF ~tableExists
       THEN UpsertFailed(c)
       ELSE /\ chains' = Put(Take(chains, c),
                             Chain("upsertWrite", 0, c.url, c.result,
                                   FindOneByHash(rows, UrlHash(c.url))))
            /\ UNCHANGED <<rows, outstandingRequests, upserts>>
    /\ emitted' = <<>>
    /\ UNCHANGED <<dbConf, returned, callerVars, started, lastRequestDate,
                   now, requestStarts, procVars>>

\* upsert: the write answers; finally: _outstandingRequests--, and the tick
\* schedules its next tick
ChainUpsertWrite(c) ==
    /\ c.pc = "upsertWrite"
    /\ IF ~tableExists
       THEN UpsertFailed(c)
       ELSE /\ rows' = UpsertRow(rows, UpsertValues(c.result[1], c.rec))
            /\ upserts' = Append(upserts, started)
            /\ outstandingRequests' = outstandingRequests - 1
            /\ Reschedule(c)
    /\ emitted' = <<>>
    /\ UNCHANGED <<dbConf, returned, callerVars, started, lastRequestDate, now,
                   requestStarts, procVars>>

\* the store fails from now on: the table is gone
Outage ==
    /\ tableExists
    /\ tableExists' = FALSE
    /\ UNCHANGED <<urlTableSynced, countChangedRows, defaultsCrawled, rows, returned,
                   callerVars, crawlerVars, procVars>>

\* the example script: a synced sqlite table holding the seed URL
Init ==
    /\ tableExists = TRUE
    /\ urlTableSynced = TRUE
    /\ countChangedRows \in BOOLEAN
    /\ defaultsCrawled = TRUE
    /\ rows = <<StoredRow(<<>>, MakeUrlRow(NewUrl(1)))>>
    /\ returned = [u \in URLS |-> 0]
    /\ wk = [w \in Workers |-> Idle]
    /\ last = NoneSettled
    /\ ops = 0
    /\ eachRows = <<>>
    /\ CrawlerNew
    /\ robotsEnabled = TRUE
    /\ robotsIgnoreServerError = FALSE
    /\ requestOptions = "default"

Live == BagToSet(chains)

Next ==
    \/ Start
    \/ Stop
    \/ Clock
    \/ \E c \in Live : TimerFire(c)
    \/ \E c \in Live : ChainSelect(c)
    \/ \E c \in Live : ChainUpdate(c)
    \/ \E c \in Live : ChainUpdated(c)
    \/ \E c \in Live : ChainProcess(c)
    \/ \E c \in Live : ChainLinks(c)
    \/ \E c \in Live : ChainFindOne(c)
    \/ \E c \in Live : ChainUpsertWrite(c)

Spec == Init /\ [][Next]_vars

\* the tick loop over a store that can fail
NextOutage ==
    \/ Next
    \/ Outage

SpecOutage == Init /\ [][NextOutage]_vars

\* every statement and every download in flight gets its answer
SpecFair ==
    /\ Spec
    /\ WF_vars(\E c \in Live : ChainSelect(c))
    /\ WF_vars(\E c \in Live : ChainUpdate(c))
    /\ WF_vars(\E c \in Live : ChainUpdated(c))
    /\ WF_vars(\E c \in Live : ChainProcess(c))
    /\ WF_vars(\E c \in Live : ChainLinks(c))
    /\ WF_vars(\E c \in Live : ChainFindOne(c))
    /\ WF_vars(\E c \in Live : ChainUpsertWrite(c))

\* _crawlTick's then-callback for a URL that new URL() cannot parse, with
\* robots enabled: the URL is counted outstanding, then _processUrl throws
\* in _getRobotsUrl before it has made a promise, so the finally with the
\* decrement is never attached; the callback's throw rejects the tick's
\* promise, which is no RangeError, and the outer finally schedules the
\* next tick
ChainUnparsable(c) ==
    /\ c.pc = "updated"
    /\ c.result[1] # 0
    /\ robotsEnabled
    /\ Reschedule(c)
    /\ returned' = [returned EXCEPT ![c.url] = @ + 1]
    /\ outstandingRequests' = outstandingRequests + 1
    /\ emitted' = <<>>
    /\ UNCHANGED <<dbConf, rows, callerVars, started, lastRequestDate, now,
                   requestStarts, upserts, procVars>>

\* the tick loop over a queue whose URLs need not be absolute URLs (the
\* links are stored as the handlers return them)
NextUnparsable ==
    \/ Next
    \/ \E c \in Live : ChainUnparsable(c)

SpecUnparsable == Init /\ [][NextUnparsable]_vars

(***************************************************************************)
(* The handlers.  A content type is the sequence of its "/"-separated      *)
(* parts; a Content-Type header is a content type with or without          *)
(* parameters after ";".  A handler's contentType is a string or a list of *)
(* strings; a handler function returns a list of links, returns something  *)
(* that is no list, or fails.                                              *)
(***************************************************************************)
TextType == <<"text">>

TextHtml == <<"text", "html">>

ImagePng == <<"image", "png">>

ContentTypes == {TextHtml, ImagePng}

Headers == [type : ContentTypes, params : BOOLEAN]

Matcher(kind, types) == [kind |-> kind, types |-> types]

Wildcard == Matcher("string", <<<<"*">>>>)

Matchers ==
    {Wildcard, Matcher("string", <<TextType>>), Matcher("string", <<TextHtml>>),
     Matcher("list", <<TextType>>), Matcher("list", <<ImagePng, TextHtml>>)}

Returning(kind, links) == [kind |-> kind, links |-> links]

Returns ==
    {Returning("list", <<u>>) : u \in URLS}
        \cup {Returning("nonlist", <<>>), Returning("throw", <<>>)}

Handler(contentType, handler) == [contentType |-> contentType, handler |-> handler]

Handlers == {Handler(m, r) : m \in Matchers, r \in Returns}

\* contentType.replace(/;.*$/g, "")
StripParams(header) == header.type

IsPrefix(s, t) == Len(s) <= Len(t) /\ SubSeq(t, 1, Len(s)) = s

\* handlerContentType + "/": a list is joined with ",", so a list of one
\* string reads as that string, and any other list as no content type
StringOf(m) == IF Len(m.types) = 1 THEN m.types[1] ELSE <<",">>

\* the three tests of _fireHandlers
Matches(m, contentType) ==
    \/ m = Wildcard
    \/ m.kind = "list" /\ \E i \in 1..Len(m.types) : m.types[i] = contentType
    \/ IsPrefix(StringOf(m), contentType)

\* the instanceof Array test on what a handler returned
SubArr(r) == IF r.kind = "list" THEN r.links ELSE <<>>

\* Promise.reduce over this._handlers from handler i on; acc is the list
\* so far, the handlers invoked so far, and whether one has failed
RECURSIVE Reduce(_, _, _, _)
Reduce(hs, contentType, i, acc) ==
    IF i > Len(hs) THEN acc
    ELSE IF ~Matches(hs[i].contentType, contentType)
    THEN Reduce(hs, contentType, i + 1, acc)
    ELSE IF hs[i].handler.kind = "throw"
    THEN [acc EXCEPT !.invoked = Append(@, i), !.failed = TRUE]
    ELSE Reduce(hs, contentType, i + 1,
                [acc EXCEPT !.invoked = Append(@, i),
                            !.arr = @ \o SubArr(hs[i].handler)])

FireHandlers(hs, header) ==
    Reduce(hs, StripParams(header), 1, [arr |-> <<>>, invoked |-> <<>>, failed |-> FALSE])

\* addHandler(contentType, handler); addHandler(handler) registers "*"
AddHandler(h) ==
    /\ Len(handlers) < MaxHandlers
    /\ handlers' = Append(handlers, h)
    /\ UNCHANGED <<dbConf, rows, returned, callerVars, crawlerVars,
                   robotsEnabled, robotsIgnoreServerError, requestOptions, robotsCache,
                   proc>>

\* _fireHandlers(contentType, body, url) is called and settles
Fire(header) ==
    /\ proc.pc \in {"idle", "fired"}
    /\ LET f == FireHandlers(handlers, header)
       IN proc' = [ProcIdle EXCEPT !.pc = "fired",
                                   !.contentType = <<header>>,
                                   !.invoked = f.invoked,
                                   !.links = IF f.failed THEN <<>> ELSE f.arr,
                                   !.cause = IF f.failed THEN "HandlerFailed" ELSE "none"]
    /\ UNCHANGED <<dbConf, rows, returned, callerVars, crawlerVars,
                   robotsEnabled, robotsIgnoreServerError, requestOptions, robotsCache,
                   handlers>>

InitHandlers ==
    /\ tableExists = TRUE
    /\ urlTableSynced = FALSE
    /\ countChangedRows = FALSE
    /\ defaultsCrawled = TRUE
    /\ rows = <<>>
    /\ returned = [u \in URLS |-> 0]
    /\ wk = [w \in Workers |-> Idle]
    /\ last = NoneSettled
    /\ ops = 0
    /\ eachRows = <<>>
    /\ CrawlerUnused

NextHandlers ==
    \/ \E h \in Handlers : AddHandler(h)
    \/ \E header \in Headers : Fire(header)

SpecHandlers == InitHandlers /\ [][NextHandlers]_vars

(***************************************************************************)
(* SpecProc: _processUrl, one call at a time.  A step is one answer (of    *)
(* the database, or of a server) together with the promise callbacks that  *)
(* run on it.  All URLs belong to one origin, whose /robots.txt is         *)
(* RobotsUrl.  A robots.txt body is the set of URLs it disallows for the   *)
(* crawler's user-agent; the empty body is the empty set.  A promise is    *)
(* its settlement: "none" when resolved, else the name of the error.       *)
(*                                                                         *)
(* With robots enabled the chain of _processUrl starts from a bluebird     *)
(* promise, whose catch(Type, fn) filters by error type.  With robots      *)
(* disabled it starts from the promise of the async function _downloadUrl, *)
(* a native promise: its catch takes one argument, so on a rejection       *)
(* catch(error.RobotsNotAllowedError, fn) calls the error constructor as   *)
(* the handler.  What that call does is decided by ./error: it throws, and *)
(* the rejection reaches the last catch as a TypeError, or it returns      *)
(* undefined, and url.getUrl() in the last callback throws.                *)
(***************************************************************************)
RobotsUrl == 0

Bodies == SUBSET URLS

\* the responses axios.get resolves with, by status
RobotsStatuses == {"404", "500"}

ErrorStatuses == {"404", "500"}

\* the Location header of a 3xx response: absent, or a URL of the origin
Locations == {<<>>} \cup {<<u>> : u \in URLS}

\* request options: none, or maxRedirects 0 with a validateStatus that
\* accepts every status
RequestOptions == {"default", "anyStatus"}

\* the handlers registered in SpecProc
ProcHandlers ==
    {Handler(Wildcard, Returning("list", <<1>>)),
     Handler(Matcher("string", <<TextHtml>>), Returning("list", <<NumUrls>>)),
     Handler(Matcher("string", <<TextType>>), Returning("throw", <<>>))}

\* _downloadAndCheckRobots, the callback on the robots.txt body
CheckRobots(body, u) ==
    IF body = {} THEN "none"
    ELSE IF u \in body THEN "RobotsNotAllowedError" ELSE "none"

\* what the body says about the URL
Verdict(body, u) == IF u \in body THEN "disallowed" ELSE "allowed"

\* .catch(error.RobotsNotAllowedError, err => Promise.reject(err))
CatchRobotsNotAllowed(r) ==
    IF r = "RobotsNotAllowedError" THEN "RobotsNotAllowedError" ELSE r

\* faulty variant: no catch after the filtered one
CatchNothing(r) == r

\* .catch(() => { })
CatchAll(r) == "none"

\* the settlement of the robots check as the download step sees it
RobotsGate(r) == CatchAll(CatchRobotsNotAllowed(r))

\* the catch handlers that end _processUrl, on a bluebird chain
ErrorCode(r) ==
    CASE r = "none"                  -> Null
      [] r = "RobotsNotAllowedError" -> "ROBOTS_NOT_ALLOWED"
      [] r = "HttpError"             -> "HTTP_ERROR"
      [] r = "RequestError"          -> "REQUEST_ERROR"
      [] r = "HandlersError"         -> "HANDLERS_ERROR"
      [] OTHER                       -> "OTHER_ERROR"

Emit(p, event) == [p EXCEPT !.events = Append(@, event)]

\* the chain settled with r is caught as `caught': _processUrl emits
\* crawledurl and resolves with its outcome record
Caught(p, r, caught, status) ==
    [Emit(IF caught = "HttpError" THEN Emit(p, "httpError") ELSE p, "crawledurl")
        EXCEPT !.pc = "done",
               !.links = <<>>,
               !.cause = r,
               !.result = <<[url        |-> p.url,
                             statusCode |-> IF caught \in {"none", "HttpError"}
                                            THEN status ELSE Null,
                             errorCode  |-> ErrorCode(caught)]>>]

\* _processUrl resolves with its outcome record, each error caught by type
Outcome(p, r, status) == Caught(p, r, r, status)

\* _processUrl rejects
Rejected(p, r) == [p EXCEPT !.pc = "failed", !.links = <<>>, !.cause = r, !.result = <<>>]

\* the ways _processUrl can settle when its chain has settled with r
Outcomes(p, r, status) ==
    IF ~p.native \/ r = "none"
    THEN {Outcome(p, r, status)}
    ELSE {Caught(p, r, "TypeError", Null), Rejected(p, r)}

\* the robots check of p.url has settled with r: the URL is downloaded, or
\* _processUrl ends with the error
AfterRobots(p, r) ==
    IF RobotsGate(r) = "none"
    THEN [p EXCEPT !.pc = "download", !.fetched = TRUE]
    ELSE Outcome(p, RobotsGate(r), Null)

\* _processUrl(u) is called: without robots the download starts; with a
\* cached robots.txt the check is made at once; else /robots.txt is put
\* into the queue first
ProcessUrl(u) ==
    /\ proc.pc \in {"idle", "done", "failed"}
    /\ ops < MaxOps
    /\ ops' = ops + 1
    /\ LET p == [ProcIdle EXCEPT !.url = u, !.native = ~robotsEnabled,
                                 !.events = <<"crawlurl">>]
       IN proc' = IF ~robotsEnabled
                  THEN [p EXCEPT !.pc = "download", !.fetched = TRUE]
                  ELSE IF robotsCache # <<>>
                  THEN AfterRobots([p EXCEPT !.robots = Verdict(robotsCache[1], u)],
                                   CheckRobots(robotsCache[1], u))
                  ELSE [p EXCEPT !.pc = "robotsInsert"]
    /\ UNCHANGED <<dbConf, rows, returned, wk, last, eachRows, crawlerVars,
                   robotsEnabled, robotsIgnoreServerError, requestOptions, robotsCache,
                   handlers>>

\* _getOrDownloadRobots: insertIfNotExists(/robots.txt) answers
ProcRobotsInsert ==
    /\ proc.pc = "robotsInsert"
    /\ IF ~tableExists
       THEN /\ proc' = AfterRobots([proc EXCEPT !.robots = "insertFailed"], "DbError")
            /\ UNCHANGED rows
       ELSE LET r == CreateRow(rows, MakeUrlRow(NewUrl(RobotsUrl)))
            IN /\ rows' = r.tbl
               /\ proc' = IF CatchUniqueConstraint(r.err).res = "resolved"
                          THEN [proc EXCEPT !.pc = "robotsDownload"]
                          ELSE AfterRobots([proc EXCEPT !.robots = "insertFailed"],
                                           "TypeError")
    /\ UNCHANGED <<dbConf, returned, callerVars, crawlerVars,
                   robotsEnabled, robotsIgnoreServerError, requestOptions, robotsCache,
                   handlers>>

\* _getOrDownloadRobots: an error status that is no refusal is answered with
\* {statusCode: 200, body: ''}
Permissive(status) == IF status = "500" THEN "lenient500" ELSE "status404"

\* _getOrDownloadRobots: the request for /robots.txt answers with a body,
\* answers with an error status, or fails
ProcRobotsDownload ==
    /\ proc.pc = "robotsDownload"
    /\ \/ \E body \in Bodies :
             /\ robotsCache' = <<body>>
             /\ proc' = AfterRobots([proc EXCEPT !.robots = Verdict(body, proc.url)],
                                    CheckRobots(body, proc.url))
       \/ \E status \in RobotsStatuses :
             /\ requestOptions = "anyStatus"
             /\ UNCHANGED robotsCache
             /\ proc' = IF status = "500" /\ ~robotsIgnoreServerError
                        THEN AfterRobots([proc EXCEPT !.robots = "status500"],
                                         "RobotsNotAllowedError")
                        ELSE AfterRobots([proc EXCEPT !.robots = Permissive(status)],
                                         "TypeError")
       \/ /\ UNCHANGED robotsCache
          /\ proc' = AfterRobots([proc EXCEPT !.robots = "requestFailed"], "RequestError")
    /\ UNCHANGED <<dbConf, rows, returned, callerVars, crawlerVars,
                   robotsEnabled, robotsIgnoreServerError, requestOptions, handlers>>

\* the response is no redirect: the handlers run on it
Handled(p, header) ==
    LET f == FireHandlers(handlers, header)
        q == [p EXCEPT !.status = "200", !.contentType = <<header>>,
                       !.invoked = f.invoked]
    IN IF f.failed
       THEN Outcomes(Emit(q, "handlersError"), "HandlersError", "200")
       ELSE {[Emit(q, "links") EXCEPT !.pc = "links",
                                      !.links = [i \in 1..Len(f.arr) |-> NewUrl(f.arr[i])]]}

\* the response is a redirect: its Location, resolved against the URL, is
\* the one link
Redirected(p, location) ==
    LET q == Emit([p EXCEPT !.status = "301"], "redirect")
    IN IF location = <<>>
       THEN Outcomes(q, "TypeError", "301")
       ELSE {[Emit(q, "links") EXCEPT !.pc = "links", !.links = <<NewUrl(location[1])>>]}

\* _downloadUrl(url) answers, and the callback on its response runs.  axios
\* with its default options follows a redirect itself and hands over what
\* the destination answers, and it rejects for every status outside 2xx;
\* the config key followRedirect that _downloadUrl sets is none axios reads
ProcDownload ==
    /\ proc.pc = "download"
    /\ \/ \E header \in Headers :
             proc' \in Handled([proc EXCEPT !.answer = Answer("200", <<>>)], header)
       \/ \E location \in Locations :
             LET p == [proc EXCEPT !.answer = Answer("301", location)]
             IN CASE requestOptions = "anyStatus" -> proc' \in Redirected(p, location)
                  [] requestOptions = "default" /\ location = <<>> ->
                        proc' \in Outcomes(p, "RequestError", Null)
                  [] requestOptions = "default" /\ location # <<>> ->
                        \/ \E header \in Headers : proc' \in Handled(p, header)
                        \/ proc' \in Outcomes(p, "RequestError", Null)
       \/ \E status \in ErrorStatuses :
             LET p == [proc EXCEPT !.answer = Answer(status, <<>>)]
             IN IF requestOptions = "anyStatus"
                THEN proc' \in Outcomes([p EXCEPT !.status = status], "HttpError", status)
                ELSE proc' \in Outcomes(p, "RequestError", Null)
       \/ proc' \in Outcomes(proc, "RequestError", Null)
    /\ UNCHANGED <<dbConf, rows, returned, callerVars, crawlerVars,
                   robotsEnabled, robotsIgnoreServerError, requestOptions, robotsCache,
                   handlers>>

\* insertIfNotExistsBulk(links) answers
ProcLinks ==
    /\ proc.pc = "links"
    /\ IF ~tableExists
       THEN /\ proc' \in Outcomes(proc, "DbError", proc.status)
            /\ UNCHANGED rows
       ELSE /\ rows' = BulkCreateRows(rows, RowsOf(proc.links))
            /\ proc' \in Outcomes(proc, "none", proc.status)
    /\ UNCHANGED <<dbConf, returned, callerVars, crawlerVars,
                   robotsEnabled, robotsIgnoreServerError, requestOptions, robotsCache,
                   handlers>>

\* the cached robots.txt reaches its time to live
RobotsCacheExpire ==
    /\ robotsCache # <<>>
    /\ robotsCache' = <<>>
    /\ UNCHANGED <<dbConf, rows, returned, callerVars, crawlerVars,
                   robotsEnabled, robotsIgnoreServerError, requestOptions, handlers, proc>>

InitProc ==
    /\ tableExists \in BOOLEAN
    /\ urlTableSynced = TRUE
    /\ countChangedRows = FALSE
    /\ defaultsCrawled = TRUE
    /\ rows = <<>>
    /\ returned = [u \in URLS |-> 0]
    /\ wk = [w \in Workers |-> Idle]
    /\ last = NoneSettled
    /\ ops = 0
    /\ eachRows = <<>>
    /\ CrawlerNew
    /\ robotsEnabled \in BOOLEAN
    /\ robotsIgnoreServerError \in BOOLEAN
    /\ requestOptions \in RequestOptions

NextProc ==
    \/ \E h \in ProcHandlers : AddHandler(h)
    \/ \E u \in URLS : ProcessUrl(u)
    \/ ProcRobotsInsert
    \/ ProcRobotsDownload
    \/ ProcDownload
    \/ ProcLinks
    \/ RobotsCacheExpire

SpecProc == InitProc /\ [][NextProc]_vars

(***************************************************************************)
(* Properties of DbUrlList                                                 *)
(***************************************************************************)
\* an operation settled in this step: a call that ran to its end at once, or
\* the last statement of an operation in progress
SettledNow ==
    \/ ops' = ops + 1 /\ wk' = wk
    \/ \E w \in Workers : wk[w].pc # "idle" /\ wk'[w].pc = "idle"

\* the numErrors stored for a URL, 0 when it has no row
NumErrorsOf(tbl, u) ==
    LET f == FindOneByHash(tbl, UrlHash(u)) IN IF f = <<>> THEN 0 ELSE f[1].numErrors

\* C1: every stored URL is returned by at most one getNextUrl call, whatever
\* the interleaving of the callers' select and update statements.
C1_AtMostOneDequeue == \A u \in URLS : returned[u] <= 1

\* C7: an upsert with errorCode = null stores numErrors = 0, and an upsert with
\* an errorCode stores one more than the numErrors stored for the URL
\* immediately before the write (0 when there was no row).
C7_ExactErrorCount ==
    [][(SettledNow /\ last'.op = "upsert" /\ last'.res = "resolved")
         => LET url == last'.arg[1]
            IN NumErrorsOf(rows', url.url) =
                  IF url.errorCode = Null THEN 0 ELSE NumErrorsOf(rows, url.url) + 1]_vars

\* C8: every stored row has errorCode = null exactly when numErrors = 0.
C8_ErrorCodeIffNoErrors ==
    \A i \in 1..Len(rows) : (rows[i].errorCode = Null) <=> (rows[i].numErrors = 0)

C8_Witness ==
    /\ \E i \in 1..Len(rows) : rows[i].errorCode # Null /\ rows[i].numErrors = 2
    /\ \E i \in 1..Len(rows) : rows[i].errorCode = Null /\ rows[i].numErrors = 0

UniqueUrls(tbl) ==
    \A i, j \in 1..Len(tbl) : tbl[i].url = tbl[j].url => i = j

\* C9: insertIfNotExists of a URL that is already stored resolves and leaves
\* the table as it was, and no URL is ever stored twice.
C9_InsertIdempotent ==
    /\ [](UniqueUrls(rows))
    /\ [][(SettledNow /\ last'.op = "insertIfNotExists"
             /\ HasHash(rows, UrlHash(last'.arg[1].url)))
            => (rows' = rows /\ last'.res = "resolved")]_vars

\* C10: the table fed through insertIfNotExistsBulk equals the table fed the
\* same records one by one through insertIfNotExists.
C10_BulkEqualsEach == rows = eachRows

C10_Witness ==
    /\ last.op = "insertIfNotExistsBulk"
    /\ last.dup
    /\ last.stored
    /\ Len(rows) = NumUrls
    /\ rows = eachRows

(***************************************************************************)
(* Properties of the tick loop                                             *)
(***************************************************************************)
Dequeues == LET RECURSIVE Sum(_)
                Sum(u) == IF u = 0 THEN 0 ELSE returned[u] + Sum(u - 1)
            IN Sum(NumUrls)

\* C4: any two request starts, by the same chain or by different chains, lie
\* at least the interval apart.
C4_Pacing ==
    \A i \in 1..Len(requestStarts) : \A j \in 1..Len(requestStarts) :
        i < j => requestStarts[j] - requestStarts[i] >= Interval

C4_Witness ==
    /\ Len(requestStarts) >= 2
    /\ outstandingRequests = 2
    /\ BagCardinality(chains) = Limit

\* C5: the number of URLs in process at once and the number of live tick
\* chains never exceed concurrentRequestsLimit, also across stop() and start().
C5_WithinLimit ==
    /\ outstandingRequests <= Limit
    /\ BagCardinality(chains) <= Limit

RefusedByRobots ==
    /\ ~proc.fetched
    /\ proc.pc = "done" => proc.result[1].errorCode = "ROBOTS_NOT_ALLOWED"

\* C2: with robots enabled, a URL that the origin's robots.txt disallows is
\* not fetched, and its outcome has errorCode ROBOTS_NOT_ALLOWED.
C2_DisallowedNotFetched ==
    (robotsEnabled /\ proc.robots = "disallowed") => RefusedByRobots

\* C3: with robots enabled and robotsIgnoreServerError false, a /robots.txt
\* that answers with status 500 gives the URL the outcome ROBOTS_NOT_ALLOWED,
\* and the URL is not fetched.
C3_ServerErrorRefuses ==
    (robotsEnabled /\ ~robotsIgnoreServerError /\ proc.robots = "status500")
        => RefusedByRobots

(***************************************************************************)
(* Properties of getNextUrl and of the stored rows                         *)
(***************************************************************************)
Uncrawled(tbl) == {i \in 1..Len(tbl) : ~tbl[i].crawled}

\* caller w's getNextUrl has its select answered with a record in this step
SelectedNow(w) == wk[w].pc # "update" /\ wk'[w].pc = "update"

C12_InsertStoresFreshRow ==
    [][(SettledNow /\ last'.op = "insertIfNotExists"
          /\ last'.arg[1] \in {NewUrl(u) : u \in URLS}
          /\ tableExists /\ rows = <<>>)
         => /\ last'.res = "resolved"
            /\ Len(rows') = 1
            /\ rows'[1].url = last'.arg[1].url
            /\ ~rows'[1].crawled
            /\ rows'[1].errorCode = Null
            /\ rows'[1].statusCode = Null
            /\ rows'[1].numErrors = 0
            /\ FindNextUncrawled(rows') = <<rows'[1]>>]_vars

RobotsRefused == proc.robots \in {"disallowed", "status500"}

\* the errorCode the failure that ended the processing of the URL calls for
ExpectedCode ==
    IF robotsEnabled /\ RobotsRefused /\ (proc.robots = "status500" => ~robotsIgnoreServerError)
    THEN "ROBOTS_NOT_ALLOWED"
    ELSE ErrorCode(proc.cause)

\* C14: _processUrl never rejects: once settled it has resolved with exactly
\* one outcome record, whose errorCode is null with the response status on
\* success, ROBOTS_NOT_ALLOWED for a robots refusal, HTTP_ERROR with the
\* status for a status >= 400, REQUEST_ERROR for a transport failure,
\* HANDLERS_ERROR for a handler failure and OTHER_ERROR for any other.
C14_OutcomeByFailure ==
    proc.pc \in {"done", "failed"} =>
        /\ proc.pc = "done"
        /\ Len(proc.result) = 1
        /\ proc.result[1].url = proc.url
        /\ proc.result[1].errorCode = ExpectedCode
        /\ ExpectedCode \in {Null, "HTTP_ERROR"} => proc.result[1].statusCode = proc.status

(***************************************************************************)
(* Properties of store failures in the tick loop                           *)
(***************************************************************************)
\* chain c takes this step while the store fails
FailsNow(c) == ~tableExists /\ CopiesIn(c, chains') < CopiesIn(c, chains)

C16_RedirectIsTheOnlyLink ==
    [][/\ (proc.pc = "download" /\ proc'.answer.status = "301"
                                /\ proc'.answer.location # <<>>)
             => /\ proc'.pc = "links"
                /\ proc'.events = proc.events \o <<"redirect", "links">>
                /\ proc'.invoked = <<>>
                /\ proc'.links = <<NewUrl(proc'.answer.location[1])>>
       /\ (proc.pc = "links" /\ proc' # proc /\ proc.answer.status = "301" /\ tableExists)
             => /\ proc'.pc = "done"
                /\ proc'.result = <<[url |-> proc.url, statusCode |-> "301",
                                     errorCode |-> Null]>>
                /\ rows' = BulkCreateRows(rows, RowsOf(proc.links))
                /\ HasHash(rows', UrlHash(proc.answer.location[1]))
                /\ Len(rows') <= Len(rows) + 1]_vars

\* C17: when a matched handler fails, no handler registered after it is
\* invoked, handlersError is emitted, no discovered link is inserted, and
\* the outcome of the URL has errorCode HANDLERS_ERROR.
C17_HandlerFailure ==
    [][(proc.pc = "download" /\ proc'.cause = "HandlersError")
          => /\ proc'.pc = "done"
             /\ proc'.result = <<[url |-> proc.url, statusCode |-> Null,
                                  errorCode |-> "HANDLERS_ERROR"]>>
             /\ proc'.events = proc.events \o <<"handlersError", "crawledurl">>
             /\ rows' = rows
             /\ LET failing == proc'.invoked[Len(proc'.invoked)]
                IN /\ handlers[failing].handler.kind = "throw"
                   /\ \A i \in 1..Len(proc'.invoked) : proc'.invoked[i] <= failing]_vars

(***************************************************************************)
(* Properties of _fireHandlers                                             *)
(***************************************************************************)
\* a matcher matches a content type: the wildcard, a list that contains
\* the type, or a string that is the type or a prefix of its parts
MatchesAsStated(m, contentType) ==
    \/ m = Wildcard
    \/ m.kind = "list" /\ \E i \in 1..Len(m.types) : m.types[i] = contentType
    \/ m.kind = "string" /\ IsPrefix(m.types[1], contentType)

\* the handlers from i on whose matcher matches, in registration order
RECURSIVE MatchingFrom(_, _, _)
MatchingFrom(hs, contentType, i) ==
    IF i > Len(hs) THEN <<>>
    ELSE (IF MatchesAsStated(hs[i].contentType, contentType) THEN <<i>> ELSE <<>>)
             \o MatchingFrom(hs, contentType, i + 1)

\* the lists the handlers idx[k], idx[k+1], ... return, one after the other
RECURSIVE Returned(_, _, _)
Returned(hs, idx, k) ==
    IF k > Len(idx) THEN <<>>
    ELSE (IF hs[idx[k]].handler.kind = "list" THEN hs[idx[k]].handler.links ELSE <<>>)
             \o Returned(hs, idx, k + 1)

\* C18: for any registered handlers and any content type, parameters
\* ignored, when no matching handler fails, _fireHandlers invokes exactly
\* the handlers whose matcher matches, in registration order, and returns
\* the concatenation of their lists, a non-list counting as the empty list.
C18_MatchingHandlersInOrder ==
    [][(proc' # proc /\ proc'.pc = "fired")
          => LET matching == MatchingFrom(handlers, proc'.contentType[1].type, 1)
             IN (\A k \in 1..Len(matching) : handlers[matching[k]].handler.kind # "throw")
                   => /\ proc'.cause = "none"
                      /\ proc'.invoked = matching
                      /\ proc'.links = Returned(handlers, matching, 1)]_vars

(***************************************************************************)
(* Properties of the events of _processUrl                                 *)
(***************************************************************************)
\* crawlurl, then any of redirect / httpError / handlersError, then links
\* if it is emitted at all, then crawledurl
InOrder(events) ==
    /\ Len(events) >= 2
    /\ events[1] = "crawlurl"
    /\ events[Len(events)] = "crawledurl"
    /\ \A i \in 2..(Len(events) - 1) :
          \/ events[i] \in {"redirect", "httpError", "handlersError"}
          \/ events[i] = "links" /\ i = Len(events) - 1

\* C19: for every processed URL, on every path of the pipeline, the events
\* about it are emitted in the order crawlurl, then any of redirect /
\* httpError / handlersError, then links, then crawledurl, with crawlurl and
\* crawledurl each emitted exactly once.
C19_EventsInOrder == proc.pc \in {"done", "failed"} => InOrder(proc.events)

(***************************************************************************)
(* Properties of a whole crawl                                             *)
(***************************************************************************)
\* C20, its safety half: in a crawl every URL of the queue is dequeued at
\* most once, and no more outcomes are upserted than the queue holds URLs.
C20_CrawledExactlyOnce ==
    /\ [](\A u \in URLS : returned[u] <= 1)
    /\ [](Len(upserts) <= Len(rows))

(***************************************************************************)
(* Properties of the robots.txt retrieval                                  *)
(***************************************************************************)
\* the retrieval of robots.txt failed in a way that is no refusal
RobotsFailures == {"lenient500", "status404", "requestFailed", "insertFailed"}

\* C21: with robots enabled, a failure of the robots.txt retrieval other
\* than a 500 under robotsIgnoreServerError = false is swallowed: the URL is
\* fetched and processed, and its outcome is that of the download, never
\* ROBOTS_NOT_ALLOWED.
C21_RobotsFailureIsPermissive ==
    (robotsEnabled /\ proc.robots \in RobotsFailures)
        => /\ proc.fetched
           /\ proc.robots = "lenient500" => robotsIgnoreServerError
           /\ proc.pc = "done" =>
                 /\ proc.result[1].errorCode # "ROBOTS_NOT_ALLOWED"
                 /\ proc.result[1].errorCode = ErrorCode(proc.cause)

\* a URL processed to a successful outcome after a lenient 500 of robots.txt
C21_Witness ==
    /\ robotsEnabled
    /\ robotsIgnoreServerError
    /\ proc.robots = "lenient500"
    /\ proc.fetched
    /\ proc.pc = "done"
    /\ proc.result[1].errorCode = Null
    /\ proc.result[1].statusCode = "200"

(***************************************************************************)
(* Properties of the events of the tick loop                               *)
(***************************************************************************)
Has(events, e) == \E i \in 1..Len(events) : events[i] = e

\* the chains holding a URL that the store has handed to this crawler
\* (crawled = true written for it) and whose outcome is not stored yet
InFlight ==
    {c \in BagToSet(chains) :
        \/ c.pc = "updated" /\ c.result[1] # 0
        \/ c.pc \in {"process", "links", "findOne", "upsertWrite"}}

\* the first half of C22: what a tick emits on an empty queue follows
\* _outstandingRequests at that moment
EmitsAsCounted ==
    /\ emitted # <<>> => emitted = QueueEmpty(outstandingRequests)
    /\ Has(emitted, "urllistcomplete") <=> (emitted # <<>> /\ outstandingRequests = 0)

\* C22: a tick that finds the queue empty emits urllistempty, and
\* urllistcomplete exactly when outstandingRequests is 0; so urllistcomplete
\* is never emitted while a URL dequeued by this crawler is still waiting for
\* its links to be inserted and its outcome to be upserted.
C22_CompleteOnlyWhenSettled ==
    /\ EmitsAsCounted
    /\ Has(emitted, "urllistcomplete") => InFlight = {}

\* urllistcomplete is emitted while the answer of a dequeue is on its way
C22_CompleteTooEarly ==
    /\ Has(emitted, "urllistcomplete")
    /\ outstandingRequests = 0
    /\ \E c \in BagToSet(chains) : c.pc = "updated" /\ c.result[1] = 1

(***************************************************************************)
(* Properties of the robots cache                                          *)
(***************************************************************************)
\* the retrievals of robots.txt that end with a verdict for the origin
UsableResults == {"allowed", "disallowed", "lenient500", "status404"}

\* the request for /robots.txt is answered in this step
RobotsAnswered == proc.pc = "robotsDownload" /\ proc'.pc # "robotsDownload"

\* a request for /robots.txt is issued only by the call that stored the
\* /robots.txt row
RobotsFetchedWithItsRow ==
    [][(proc.pc # "robotsDownload" /\ proc'.pc = "robotsDownload")
          => /\ robotsCache = <<>>
             /\ ~HasHash(rows, UrlHash(RobotsUrl))
             /\ HasHash(rows', UrlHash(RobotsUrl))]_vars

\* C23: every retrieval of robots.txt that ends with a usable result stores
\* a body in the robots cache, the empty body when an error status is taken
\* as "no restrictions"; so further URLs of the origin are processed from
\* the cache, without another request for robots.txt.
C23_UsableResultIsCached ==
    [][(RobotsAnswered /\ proc'.robots \in UsableResults)
          => /\ robotsCache' # <<>>
             /\ proc'.robots \in {"lenient500", "status404"} => robotsCache' = <<{}>>]_vars

\* a 404 for /robots.txt was taken as "no restrictions", the URL is
\* processed, and the cache holds nothing
C23_PermissiveNotCached ==
    /\ proc.robots = "status404"
    /\ proc.pc = "done"
    /\ proc.fetched
    /\ robotsCache = <<>>
    /\ ops = 1

(***************************************************************************)
(* Properties of the schema creation                                       *)
(***************************************************************************)
\* the schema creation is in progress
Syncing == \E w \in Workers : wk[w].pc = "sync"

\* no statement has run on a table that was not created yet
NoStatementBeforeSchema == last.val # "NoTableError"

\* while the table is missing and no sync() is in progress, the next
\* operation will call sync()
FailedSyncIsRetried == (~tableExists /\ ~Syncing) => ~urlTableSynced

\* C24: of several DbUrlList operations started before the first schema
\* creation has finished, none reads or writes the table before the schema
\* creation has completed; and a schema creation that failed is attempted
\* again by a later operation.
C24_SchemaBeforeUse ==
    /\ NoStatementBeforeSchema
    /\ FailedSyncIsRetried

\* sync() has failed, and a later operation has run its statement on the
\* missing table without calling sync()
C24_FailedSyncNotRetried ==
    /\ ~tableExists
    /\ ~Syncing
    /\ urlTableSynced
    /\ ops >= 2
    /\ last.val = "NoTableError"

(***************************************************************************)
(* Properties of the count of outstanding requests                         *)
(***************************************************************************)
\* the number of chains, copies counted, that hold a URL handed to the
\* tick's callback whose _processUrl and upsert have not settled
Processing ==
    LET busy == {c \in BagToSet(chains) :
                    c.pc \in {"process", "links", "findOne", "upsertWrite"}}
        RECURSIVE Sum(_)
        Sum(S) == IF S = {} THEN 0
                  ELSE LET c == CHOOSE x \in S : TRUE
                       IN CopiesIn(c, chains) + Sum(S \ {c})
    IN Sum(busy)

\* C25: outstandingRequests is the number of URLs this crawler has dequeued
\* and whose processing and upsert have not settled yet; it is never
\* negative, and it is back at 0 whenever no URL is in flight, also after a
\* failed upsert.
C25_OutstandingIsInFlight ==
    /\ outstandingRequests >= 0
    /\ outstandingRequests = Processing

\* a URL was counted outstanding and its processing is over with nothing
\* stored, yet it is still counted: every chain waits for its next tick
C25_CountLeaked ==
    /\ outstandingRequests = 1
    /\ Processing = 0
    /\ upserts = <<>>
    /\ \A c \in BagToSet(chains) : c.pc = "timer"
    /\ BagCardinality(chains) = Limit

====
